---- MODULE Spec2Model ----
(***************************************************************************)
(* A model of js/utils/NeuralNetwork.js: the NeuralNetwork class (the      *)
(* "genome"), its genetic operators and its serialisation; and of          *)
(* js/utils/TestHarness.js: the Simulation and TestHarness classes.        *)
(*                                                                         *)
(* JavaScript arrays are objects reached through references, so the three  *)
(* arrays of a network (layers, weights, biases) live in a heap and a      *)
(* network holds their addresses.  The inner arrays of weights and biases  *)
(* are only ever reachable through their one outer array (every method     *)
(* that builds an outer array builds its inner arrays too), so an outer    *)
(* array and its inner arrays are one heap object.                         *)
(*                                                                         *)
(* Numbers are fixed point, in hundredths (Unit = 1.0).  Math.random() is  *)
(* a stream of draws from [0, 1) that the methods consume in call order.   *)
(***************************************************************************)
EXTENDS Integers, Sequences, FiniteSets, TLC

VARIABLES
    nets,   \* program variable -> the NeuralNetwork object it holds
    heap,   \* address -> array (a layers, a weights or a biases array)
    ret,    \* the last call: what was called, on what, and what it returned
    pc,     \* where the calling program stands
    frames, \* evaluation -> the locals of its feedForward call in progress
    sim,    \* the Simulation object, once it is constructed
    harness \* the TestHarness object, once it is constructed

vars == <<nets, heap, ret, pc, frames, sim, harness>>

(***************************************************************************)
(* Bounds of the model.                                                    *)
(***************************************************************************)
MaxW == 2       \* weights and biases stay within [-MaxW, MaxW]

Unit == 100     \* fixed point: 1.0
Precision == 12 \* bits of the significand of a number (53 in a double)
Alpha == 1      \* leakyRelu's default alpha, 0.01

\* Outcomes of Math.random(): 0.0 and 0.5
RandomDraws == {0, Unit \div 2}

Undefined == "undefined"
NoAddr == 0

\* NaN, the number that arithmetic on undefined gives; it lies outside the
\* fixed-point numbers the model reaches
NaN == -999999999

(***************************************************************************)
(* Arithmetic.                                                             *)
(***************************************************************************)
Abs(x) == IF x < 0 THEN -x ELSE x

\* the distance between neighbouring numbers at the magnitude m
RECURSIVE UlpOf(_, _)
UlpOf(m, u) == IF m < (2 ^ Precision) * u THEN u ELSE UlpOf(m, 2 * u)

\* the number nearest to x, the tie going to the even significand
Round(x) ==
    LET m == Abs(x)
        u == UlpOf(m, 1)
        q == m \div u
        r == m % u
        n == IF 2 * r > u \/ (2 * r = u /\ q % 2 = 1) THEN (q + 1) * u ELSE q * u
    IN  IF x < 0 THEN -n ELSE n

\* the product of two fixed-point numbers
Mul(a, b) == IF a = NaN \/ b = NaN THEN NaN ELSE Round((a * b) \div Unit)

\* the sum of two numbers
Add(a, b) == IF a = NaN \/ b = NaN THEN NaN ELSE Round(a + b)

\* a[k] as an operand of * : a read past the end of the array gives
\* undefined, and undefined * x is NaN
Elem(a, k) == IF k \in 1..Len(a) THEN a[k] ELSE NaN

RECURSIVE Newton(_, _)
Newton(n, x) ==
    LET y == (x + n \div x) \div 2 IN IF y >= x THEN x ELSE Newton(n, y)

\* Math.sqrt of the fixed-point number x
Sqrt(x) == IF x = 0 THEN 0 ELSE Newton(x * Unit, x * Unit)

RECURSIVE SumSeq(_)
SumSeq(s) == IF s = <<>> THEN 0 ELSE Head(s) + SumSeq(Tail(s))

RECURSIVE ConcatAll(_)
ConcatAll(ss) == IF ss = <<>> THEN <<>> ELSE Head(ss) \o ConcatAll(Tail(ss))

\* the first n draws of the stream are used, the rest is what is left
Drop(s, n) == SubSeq(s, n + 1, Len(s))

(***************************************************************************)
(* The heap.                                                               *)
(***************************************************************************)
\* The heap is the sequence of the live arrays; an address is an index.
Alloc(h, v) == [h |-> Append(h, v), addr |-> Len(h) + 1]

\* the addresses the variables reach, in order of first reference
RefsOf(n) == <<n.layers, n.weights, n.biases>>

RECURSIVE Dedup(_, _)
Dedup(s, seen) ==
    IF s = <<>> THEN <<>>
    ELSE IF Head(s) \in seen THEN Dedup(Tail(s), seen)
    ELSE <<Head(s)>> \o Dedup(Tail(s), seen \cup {Head(s)})

LiveOrder(ns) ==
    Dedup(ConcatAll([v \in 1..3 |->
                        IF v \in DOMAIN ns THEN RefsOf(ns[v]) ELSE <<>>]), {})

IndexOf(s, x) == CHOOSE i \in 1..Len(s) : s[i] = x

\* Garbage collection: arrays no variable reaches are dropped, and the live
\* ones are renumbered in order of first reference (addresses are not
\* observable in JavaScript, only identity is).
Collect(ns, h) ==
    LET order == LiveOrder(ns)
        to(a) == IndexOf(order, a)
    IN  [nets |-> [v \in DOMAIN ns |->
                     [ns[v] EXCEPT !.layers = to(@), !.weights = to(@), !.biases = to(@)]],
         heap |-> [a \in 1..Len(order) |-> h[order[a]]]]

(***************************************************************************)
(* Activation functions.                                                   *)
(***************************************************************************)
\* e^q for an integer q
EPow(q) ==
    IF q <= -5 THEN 0
    ELSE IF q < 0 THEN <<1, 4, 13, 36>>[q + 5]
    ELSE IF q = 0 THEN Unit
    ELSE <<271, 738, 2008, 5459, 14841, 40342, 109663, 298095, 810308,
           2202646, 5987414>>[q]

\* e^(r/Unit) for 0 <= r < Unit, by its Taylor series
EFrac(r) == Unit + r + (r * r) \div 200 + (r * r * r) \div 60000
                 + (r * r * r * r) \div 2400000

\* Math.exp, to two decimals; above 12 it saturates (every quotient below
\* that uses it is by then 0 or 1 to two decimals)
Exp(x) ==
    IF x >= 12 * Unit THEN 16275479
    ELSE (EPow(x \div Unit) * EFrac(x % Unit)) \div Unit

sigmoid(x) ==
    IF x < -15 * Unit THEN 0
    ELSE IF x > 15 * Unit THEN Unit
    ELSE (Unit * Unit) \div (Unit + Exp(-x))

relu(x) == IF 0 > x THEN 0 ELSE x

leakyRelu(x) == IF x > 0 THEN x ELSE Mul(Alpha, x)

tanh(x) ==
    IF x > 10 * Unit THEN Unit
    ELSE IF x < -10 * Unit THEN -Unit
    ELSE LET e2x == Exp(2 * x) IN ((e2x - Unit) * Unit) \div (e2x + Unit)

\* the four functions a network can hold in this.activation
ActivationFns == {"sigmoid", "relu", "tanh", "leakyRelu"}

\* calling the function held in this.activation; each of the four returns
\* NaN on NaN (its comparisons are false, and Math.max, Math.exp, * and /
\* give NaN)
Activate(f, x) ==
    IF x = NaN THEN NaN ELSE
    CASE f = "sigmoid" -> sigmoid(x)
      [] f = "relu" -> relu(x)
      [] f = "tanh" -> tanh(x)
      [] f = "leakyRelu" -> leakyRelu(x)

(***************************************************************************)
(* class NeuralNetwork.  An object is a record of its fields; layers,      *)
(* weights and biases are addresses.  Every method takes the heap and      *)
(* returns the heap it leaves.                                             *)
(***************************************************************************)
DefaultLayers == <<3, 4, 2>>

\* a value the || operator replaces by its right-hand side
Falsy(s) == s \in {Undefined, ""}

\* positions of the weight elements, in the order of the i, j, k loops
WPositions(w) ==
    ConcatAll([i \in 1..Len(w) |->
        ConcatAll([j \in 1..Len(w[i]) |->
            [k \in 1..Len(w[i][j]) |-> <<i, j, k>>]])])

\* positions of the bias elements, in the order of the i, j loops
BPositions(b) ==
    ConcatAll([i \in 1..Len(b) |-> [j \in 1..Len(b[i]) |-> <<i, j>>]])

\* draws the loops of initialize have consumed when they reach layer i
DrawsBefore(layers, i) ==
    SumSeq([m \in 1..(i - 1) |-> layers[m + 1] * (layers[m] + 1)])

\* draws one call of initialize consumes
InitDraws(layers) == IF Len(layers) < 2 THEN 0 ELSE DrawsBefore(layers, Len(layers))

\* initialize giving every neuron as many weights as its own layer has
\* neurons
initializeSquare(h, self, rnd) ==
    LET layers == h[self.layers]
        weightScale(i) == Sqrt((2 * Unit) \div (layers[i] + layers[i + 1]))
        at(i, j) == DrawsBefore(layers, i) + (j - 1) * (layers[i] + 1)
        layerWeights(i) ==
            [j \in 1..layers[i + 1] |->
                [k \in 1..layers[i + 1] |->
                    Mul(rnd[at(i, j) + k] * 2 - Unit, weightScale(i))]]
        layerBiases(i) ==
            [j \in 1..layers[i + 1] |->
                Mul(rnd[at(i, j) + layers[i] + 1] * 2 - Unit, Unit \div 10)]
    IN  [h EXCEPT ![self.weights] = @ \o [i \in 1..(Len(layers) - 1) |-> layerWeights(i)],
                  ![self.biases] = @ \o [i \in 1..(Len(layers) - 1) |-> layerBiases(i)]]

initialize(h, self, rnd) ==
    LET layers == h[self.layers]
        weightScale(i) == Sqrt((2 * Unit) \div (layers[i] + layers[i + 1]))
        at(i, j) == DrawsBefore(layers, i) + (j - 1) * (layers[i] + 1)
        layerWeights(i) ==
            [j \in 1..layers[i + 1] |->
                [k \in 1..layers[i] |->
                    Mul(rnd[at(i, j) + k] * 2 - Unit, weightScale(i))]]
        layerBiases(i) ==
            [j \in 1..layers[i + 1] |->
                Mul(rnd[at(i, j) + layers[i] + 1] * 2 - Unit, Unit \div 10)]
    IN  [h EXCEPT ![self.weights] = @ \o [i \in 1..(Len(layers) - 1) |-> layerWeights(i)],
                  ![self.biases] = @ \o [i \in 1..(Len(layers) - 1) |-> layerBiases(i)]]

\* new NeuralNetwork(options); rnd is what Math.random() returns from here on
constructor(h, options, rnd) ==
    LET l == IF options.layers = NoAddr THEN Alloc(h, DefaultLayers)
             ELSE [h |-> h, addr |-> options.layers]
        w == Alloc(l.h, <<>>)
        b == Alloc(w.h, <<>>)
        this == [layers |-> l.addr,
                 activation |-> IF options.activation = Undefined THEN "sigmoid"
                                ELSE options.activation,
                 activationName |-> IF Falsy(options.activationName) THEN "sigmoid"
                                    ELSE options.activationName,
                 weights |-> w.addr,
                 biases |-> b.addr,
                 layerOutputs |-> <<>>,
                 useOptimizedOperations |-> TRUE]
    IN  IF options.weights = NoAddr \/ options.biases = NoAddr
        THEN [h |-> initialize(b.h, this, rnd), obj |-> this]
        ELSE [h |-> b.h,
              obj |-> [this EXCEPT !.weights = options.weights,
                                   !.biases = options.biases]]

\* the plain accumulation of one neuron: sum += outputs[k] * weights[k]
RECURSIVE PlainSum(_, _, _, _)
PlainSum(sum, k, outputs, weights) ==
    IF k > Len(weights) THEN sum
    ELSE PlainSum(Add(sum, Mul(Elem(outputs, k), weights[k])), k + 1, outputs, weights)

\* sum += s[1]; sum += s[2]; ...
RECURSIVE AddAll(_, _)
AddAll(sum, s) == IF s = <<>> THEN sum ELSE AddAll(Add(sum, Head(s)), Tail(s))

\* the unrolled accumulation; k counts from 0 as in the source
RECURSIVE UnrolledSum(_, _, _, _, _)
UnrolledSum(sum, k, outputs, weights, prevLayerSize) ==
    IF ~(k < prevLayerSize) THEN sum
    ELSE IF k + 3 < prevLayerSize
    THEN UnrolledSum(Add(sum,
                         Add(Add(Add(Mul(Elem(outputs, k + 1), Elem(weights, k + 1)),
                                     Mul(Elem(outputs, k + 2), Elem(weights, k + 2))),
                                 Mul(Elem(outputs, k + 3), Elem(weights, k + 3))),
                             Mul(Elem(outputs, k + 4), Elem(weights, k + 4)))),
                     k + 4, outputs, weights, prevLayerSize)
    ELSE UnrolledSum(AddAll(sum, [m \in 1..(prevLayerSize - k) |->
                                    Mul(Elem(outputs, k + m), Elem(weights, k + m))]),
                     k + 4, outputs, weights, prevLayerSize)

\* the layer loop with i < this.weights.length - 1 as its test
RECURSIVE ForwardLayersShort(_, _, _, _, _, _)
ForwardLayersShort(w, b, f, optimized, i, layerOutputs) ==
    IF i > Len(w) - 1 THEN layerOutputs
    ELSE LET outputs == layerOutputs[Len(layerOutputs)]
             next == [j \in 1..Len(w[i]) |->
                        Activate(f, IF optimized
                                    THEN UnrolledSum(b[i][j], 0, outputs, w[i][j],
                                                     Len(w[i][1]))
                                    ELSE PlainSum(b[i][j], 1, outputs, w[i][j]))]
         IN  ForwardLayersShort(w, b, f, optimized, i + 1, Append(layerOutputs, next))

\* the layer loop of both paths; returns this.layerOutputs as the call leaves it
RECURSIVE ForwardLayers(_, _, _, _, _, _)
ForwardLayers(w, b, f, optimized, i, layerOutputs) ==
    IF i > Len(w) THEN layerOutputs
    ELSE LET outputs == layerOutputs[Len(layerOutputs)]
             next == [j \in 1..Len(w[i]) |->
                        Activate(f, IF optimized
                                    THEN UnrolledSum(b[i][j], 0, outputs, w[i][j],
                                                     Len(w[i][1]))
                                    ELSE PlainSum(b[i][j], 1, outputs, w[i][j]))]
         IN  ForwardLayers(w, b, f, optimized, i + 1, Append(layerOutputs, next))

feedForwardOptimized(h, self, inputs) ==
    LET lo == ForwardLayers(h[self.weights], h[self.biases], self.activation,
                            TRUE, 1, <<inputs>>)
    IN  [out |-> lo[Len(lo)], layerOutputs |-> lo]

\* the head of feedForward: outputs = inputs; this.layerOutputs = [inputs]
forwardBegin(self, inputs) ==
    [frame |-> [inputs |-> inputs, outputs |-> inputs, i |-> 1, returned |-> FALSE],
     layerOutputs |-> <<inputs>>]

\* one pass of the layer loop, reading the outputs of the layer before from
\* the end of this.layerOutputs
forwardStepOnCache(h, self, frame) ==
    LET lo == ForwardLayers(SubSeq(h[self.weights], frame.i, frame.i),
                            SubSeq(h[self.biases], frame.i, frame.i),
                            self.activation, self.useOptimizedOperations, 1,
                            <<self.layerOutputs[Len(self.layerOutputs)]>>)
    IN  [frame |-> [frame EXCEPT !.outputs = lo[2], !.i = @ + 1],
         layerOutputs |-> Append(self.layerOutputs, lo[2])]

\* one pass of the layer loop of feedForward, for the layer frame.i:
\* outputs = layerOutputs; this.layerOutputs.push(outputs)
forwardStep(h, self, frame) ==
    LET lo == ForwardLayers(SubSeq(h[self.weights], frame.i, frame.i),
                            SubSeq(h[self.biases], frame.i, frame.i),
                            self.activation, self.useOptimizedOperations, 1,
                            <<frame.outputs>>)
    IN  [frame |-> [frame EXCEPT !.outputs = lo[2], !.i = @ + 1],
         layerOutputs |-> Append(self.layerOutputs, lo[2])]

\* feedForward as it would be if it read its input from the cache of the
\* call before, and then stored the new input there
feedForwardStale(h, self, inputs) ==
    LET start == IF self.layerOutputs = <<>> THEN inputs ELSE self.layerOutputs[1]
        lo == ForwardLayers(h[self.weights], h[self.biases], self.activation,
                            self.useOptimizedOperations, 1, <<start>>)
    IN  [out |-> lo[Len(lo)], layerOutputs |-> <<inputs>> \o Tail(lo)]

feedForward(h, self, inputs) ==
    IF self.useOptimizedOperations THEN feedForwardOptimized(h, self, inputs)
    ELSE LET lo == ForwardLayers(h[self.weights], h[self.biases], self.activation,
                                 FALSE, 1, <<inputs>>)
         IN  [out |-> lo[Len(lo)], layerOutputs |-> lo]

\* mutate's test with <= for <
MutationHitsInclusive(u, rate) == u <= rate

\* if (Math.random() < rate), u being what Math.random() returned
MutationHits(u, rate) == u < rate

\* the weight loops with (Math.random() * 2 - 2) * amount as the change
RECURSIVE MutateWeightsWide(_, _, _, _, _)
MutateWeightsWide(w, pos, rate, amount, rnd) ==
    IF pos = <<>> THEN [arr |-> w, rnd |-> rnd]
    ELSE LET p == Head(pos) IN
         IF MutationHits(rnd[1], rate)
         THEN MutateWeightsWide(
                  [w EXCEPT ![p[1]][p[2]][p[3]] =
                                Add(@, Mul(rnd[2] * 2 - 2 * Unit, amount))],
                  Tail(pos), rate, amount, Drop(rnd, 2))
         ELSE MutateWeightsWide(w, Tail(pos), rate, amount, Drop(rnd, 1))

\* the weight loops of mutate over the positions pos; returns the array and
\* the draws left
RECURSIVE MutateWeights(_, _, _, _, _)
MutateWeights(w, pos, rate, amount, rnd) ==
    IF pos = <<>> THEN [arr |-> w, rnd |-> rnd]
    ELSE LET p == Head(pos) IN
         IF MutationHits(rnd[1], rate)
         THEN MutateWeights(
                  [w EXCEPT ![p[1]][p[2]][p[3]] =
                                Add(@, Mul(rnd[2] * 2 - Unit, amount))],
                  Tail(pos), rate, amount, Drop(rnd, 2))
         ELSE MutateWeights(w, Tail(pos), rate, amount, Drop(rnd, 1))

RECURSIVE MutateBiases(_, _, _, _, _)
MutateBiases(b, pos, rate, amount, rnd) ==
    IF pos = <<>> THEN [arr |-> b, rnd |-> rnd]
    ELSE LET p == Head(pos) IN
         IF MutationHits(rnd[1], rate)
         THEN MutateBiases(
                  [b EXCEPT ![p[1]][p[2]] = Add(@, Mul(rnd[2] * 2 - Unit, amount))],
                  Tail(pos), rate, amount, Drop(rnd, 2))
         ELSE MutateBiases(b, Tail(pos), rate, amount, Drop(rnd, 1))

mutate(h, self, rate, amount, rnd) ==
    LET w == MutateWeights(h[self.weights], WPositions(h[self.weights]),
                           rate, amount, rnd)
        hw == [h EXCEPT ![self.weights] = w.arr]
        b == MutateBiases(hw[self.biases], BPositions(hw[self.biases]),
                          rate, amount, w.rnd)
    IN  [hw EXCEPT ![self.biases] = b.arr]

\* the compatibility checks without the comparison of the lengths
CrossoverThrowsElementsOnly(h, self, other) ==
    \E i \in 1..Len(h[self.layers]) :
        \/ i > Len(h[other.layers])
        \/ h[self.layers][i] # h[other.layers][i]

\* the two compatibility checks that open crossover
CrossoverThrows(h, self, other) ==
    \/ Len(h[self.layers]) # Len(h[other.layers])
    \/ \E i \in 1..Len(h[self.layers]) : h[self.layers][i] # h[other.layers][i]

\* crossover's test with <= for <
InheritsFromThisInclusive(u, crossoverRate) == u <= crossoverRate

\* if (Math.random() < crossoverRate), u being what Math.random() returned
InheritsFromThis(u, crossoverRate) == u < crossoverRate

\* crossover as it would be if the child were given the biases array of
\* this network instead of newBiases
crossoverKeepingBiases(h, self, other, crossoverRate, rnd) ==
    IF CrossoverThrows(h, self, other) THEN [threw |-> TRUE]
    ELSE
    LET tw == h[self.weights]
        ow == h[other.weights]
        wpos == WPositions(tw)
        newWeights ==
            [i \in 1..Len(tw) |-> [j \in 1..Len(tw[i]) |-> [k \in 1..Len(tw[i][j]) |->
                IF InheritsFromThis(rnd[IndexOf(wpos, <<i, j, k>>)], crossoverRate)
                THEN tw[i][j][k] ELSE ow[i][j][k]]]]
        w == Alloc(h, newWeights)
        l == Alloc(w.h, h[self.layers])
        made == constructor(l.h, [layers |-> l.addr,
                                  activation |-> self.activation,
                                  activationName |-> self.activationName,
                                  weights |-> w.addr,
                                  biases |-> self.biases], <<>>)
    IN  [threw |-> FALSE, h |-> made.h, obj |-> made.obj]

\* crossover as it would be if it wrote the mixed elements into the arrays
\* of this network before copying them for the child
crossoverInPlace(h, self, other, crossoverRate, rnd) ==
    IF CrossoverThrows(h, self, other) THEN [threw |-> TRUE]
    ELSE
    LET tw == h[self.weights]
        ow == h[other.weights]
        tb == h[self.biases]
        ob == h[other.biases]
        wpos == WPositions(tw)
        bpos == BPositions(tb)
        newWeights ==
            [i \in 1..Len(tw) |-> [j \in 1..Len(tw[i]) |-> [k \in 1..Len(tw[i][j]) |->
                IF InheritsFromThis(rnd[IndexOf(wpos, <<i, j, k>>)], crossoverRate)
                THEN tw[i][j][k] ELSE ow[i][j][k]]]]
        newBiases ==
            [i \in 1..Len(tb) |-> [j \in 1..Len(tb[i]) |->
                IF InheritsFromThis(rnd[Len(wpos) + IndexOf(bpos, <<i, j>>)],
                                    crossoverRate)
                THEN tb[i][j] ELSE ob[i][j]]]
        written == [h EXCEPT ![self.weights] = newWeights, ![self.biases] = newBiases]
        w == Alloc(written, newWeights)
        b == Alloc(w.h, newBiases)
        l == Alloc(b.h, h[self.layers])
        made == constructor(l.h, [layers |-> l.addr,
                                  activation |-> self.activation,
                                  activationName |-> self.activationName,
                                  weights |-> w.addr,
                                  biases |-> b.addr], <<>>)
    IN  [threw |-> FALSE, h |-> made.h, obj |-> made.obj]

\* crossover as it would be if it read the other parent's weights from the
\* far end of each row
crossoverMirrored(h, self, other, crossoverRate, rnd) ==
    IF CrossoverThrows(h, self, other) THEN [threw |-> TRUE]
    ELSE
    LET tw == h[self.weights]
        ow == h[other.weights]
        tb == h[self.biases]
        ob == h[other.biases]
        wpos == WPositions(tw)
        bpos == BPositions(tb)
        newWeights ==
            [i \in 1..Len(tw) |-> [j \in 1..Len(tw[i]) |-> [k \in 1..Len(tw[i][j]) |->
                IF InheritsFromThis(rnd[IndexOf(wpos, <<i, j, k>>)], crossoverRate)
                THEN tw[i][j][k] ELSE ow[i][j][Len(ow[i][j]) + 1 - k]]]]
        newBiases ==
            [i \in 1..Len(tb) |-> [j \in 1..Len(tb[i]) |->
                IF InheritsFromThis(rnd[Len(wpos) + IndexOf(bpos, <<i, j>>)],
                                    crossoverRate)
                THEN tb[i][j] ELSE ob[i][j]]]
        w == Alloc(h, newWeights)
        b == Alloc(w.h, newBiases)
        l == Alloc(b.h, h[self.layers])
        made == constructor(l.h, [layers |-> l.addr,
                                  activation |-> self.activation,
                                  activationName |-> self.activationName,
                                  weights |-> w.addr,
                                  biases |-> b.addr], <<>>)
    IN  [threw |-> FALSE, h |-> made.h, obj |-> made.obj]

crossover(h, self, other, crossoverRate, rnd) ==
    IF CrossoverThrows(h, self, other) THEN [threw |-> TRUE]
    ELSE
    LET tw == h[self.weights]
        ow == h[other.weights]
        tb == h[self.biases]
        ob == h[other.biases]
        wpos == WPositions(tw)
        bpos == BPositions(tb)
        newWeights ==
            [i \in 1..Len(tw) |-> [j \in 1..Len(tw[i]) |-> [k \in 1..Len(tw[i][j]) |->
                IF InheritsFromThis(rnd[IndexOf(wpos, <<i, j, k>>)], crossoverRate)
                THEN tw[i][j][k] ELSE ow[i][j][k]]]]
        newBiases ==
            [i \in 1..Len(tb) |-> [j \in 1..Len(tb[i]) |->
                IF InheritsFromThis(rnd[Len(wpos) + IndexOf(bpos, <<i, j>>)],
                                    crossoverRate)
                THEN tb[i][j] ELSE ob[i][j]]]
        w == Alloc(h, newWeights)
        b == Alloc(w.h, newBiases)
        l == Alloc(b.h, h[self.layers])
        made == constructor(l.h, [layers |-> l.addr,
                                  activation |-> self.activation,
                                  activationName |-> self.activationName,
                                  weights |-> w.addr,
                                  biases |-> b.addr], <<>>)
    IN  [threw |-> FALSE, h |-> made.h, obj |-> made.obj]

\* clone as a shallow copy would have it: the new object is given the
\* arrays of this one
cloneShallow(h, self) ==
    LET l == Alloc(h, h[self.layers])
    IN  constructor(l.h, [layers |-> l.addr,
                          activation |-> self.activation,
                          activationName |-> self.activationName,
                          weights |-> self.weights,
                          biases |-> self.biases], <<>>)

clone(h, self) ==
    LET tw == h[self.weights]
        tb == h[self.biases]
        newWeights == [i \in 1..Len(tw) |-> [j \in 1..Len(tw[i]) |->
                          [k \in 1..Len(tw[i][j]) |-> tw[i][j][k]]]]
        newBiases == [i \in 1..Len(tb) |-> [j \in 1..Len(tb[i]) |-> tb[i][j]]]
        w == Alloc(h, newWeights)
        b == Alloc(w.h, newBiases)
        l == Alloc(b.h, h[self.layers])
    IN  constructor(l.h, [layers |-> l.addr,
                          activation |-> self.activation,
                          activationName |-> self.activationName,
                          weights |-> w.addr,
                          biases |-> b.addr], <<>>)

\* the difference of two elements without Math.abs
SignedDiff(a, b) == a - b

\* Math.abs(a - b)
AbsDiff(a, b) == Abs(a - b)

\* Reading past the end of an array gives undefined: a further index into
\* undefined throws a TypeError, and arithmetic on undefined gives NaN.
\* The loops of difference carry totalDiff, totalElements, whether totalDiff
\* is NaN by now, and whether a read threw.
RECURSIVE DiffWeights(_, _, _, _)
DiffWeights(tw, ow, pos, acc) ==
    IF pos = <<>> \/ acc.threw THEN acc
    ELSE LET p == Head(pos) IN
         IF p[1] > Len(ow) \/ p[2] > Len(ow[p[1]])
         THEN [acc EXCEPT !.threw = TRUE]
         ELSE IF p[3] > Len(ow[p[1]][p[2]])
         THEN DiffWeights(tw, ow, Tail(pos),
                          [acc EXCEPT !.nan = TRUE, !.totalElements = @ + 1])
         ELSE DiffWeights(tw, ow, Tail(pos),
                  [acc EXCEPT !.totalDiff = @ + AbsDiff(tw[p[1]][p[2]][p[3]],
                                                        ow[p[1]][p[2]][p[3]]),
                              !.totalElements = @ + 1])

RECURSIVE DiffBiases(_, _, _, _)
DiffBiases(tb, ob, pos, acc) ==
    IF pos = <<>> \/ acc.threw THEN acc
    ELSE LET p == Head(pos) IN
         IF p[1] > Len(ob)
         THEN [acc EXCEPT !.threw = TRUE]
         ELSE IF p[2] > Len(ob[p[1]])
         THEN DiffBiases(tb, ob, Tail(pos),
                         [acc EXCEPT !.nan = TRUE, !.totalElements = @ + 1])
         ELSE DiffBiases(tb, ob, Tail(pos),
                  [acc EXCEPT !.totalDiff = @ + AbsDiff(tb[p[1]][p[2]], ob[p[1]][p[2]]),
                              !.totalElements = @ + 1])

\* difference dividing totalDiff by totalElements without testing it: 0 / 0
\* is NaN
differenceUnguarded(h, self, other) ==
    LET w == DiffWeights(h[self.weights], h[other.weights],
                         WPositions(h[self.weights]),
                         [totalDiff |-> 0, totalElements |-> 0,
                          nan |-> FALSE, threw |-> FALSE])
        t == DiffBiases(h[self.biases], h[other.biases],
                        BPositions(h[self.biases]), w)
    IN  [threw |-> t.threw,
         nan |-> ~t.threw /\ (t.nan \/ t.totalElements = 0),
         value |-> IF ~t.threw /\ ~t.nan /\ t.totalElements > 0
                   THEN t.totalDiff \div t.totalElements ELSE 0]

\* returns the number, or NaN (nan), or throws (threw)
difference(h, self, other) ==
    LET w == DiffWeights(h[self.weights], h[other.weights],
                         WPositions(h[self.weights]),
                         [totalDiff |-> 0, totalElements |-> 0,
                          nan |-> FALSE, threw |-> FALSE])
        t == DiffBiases(h[self.biases], h[other.biases],
                        BPositions(h[self.biases]), w)
    IN  [threw |-> t.threw,
         nan |-> ~t.threw /\ t.nan /\ t.totalElements > 0,
         value |-> IF ~t.threw /\ ~t.nan /\ t.totalElements > 0
                   THEN t.totalDiff \div t.totalElements ELSE 0]

\* prune's test with <= for <
BelowThresholdInclusive(w, threshold) == Abs(w) <= threshold

\* if (Math.abs(w) < threshold)
BelowThreshold(w, threshold) == Abs(w) < threshold

\* the loops of prune over the positions pos
RECURSIVE PruneWeights(_, _, _, _)
PruneWeights(w, pos, threshold, prunedCount) ==
    IF pos = <<>> THEN [arr |-> w, prunedCount |-> prunedCount]
    ELSE LET p == Head(pos) IN
         IF BelowThreshold(w[p[1]][p[2]][p[3]], threshold)
         THEN PruneWeights([w EXCEPT ![p[1]][p[2]][p[3]] = 0], Tail(pos),
                           threshold, prunedCount + 1)
         ELSE PruneWeights(w, Tail(pos), threshold, prunedCount)

\* prune as it would be if it took the count of the pruned weights off the
\* last entry of the topology
pruneShrinking(h, self, threshold) ==
    LET r == PruneWeights(h[self.weights], WPositions(h[self.weights]), threshold, 0)
    IN  [h |-> [h EXCEPT ![self.weights] = r.arr,
                         ![self.layers] = [@ EXCEPT ![Len(@)] = @ - r.prunedCount]],
         prunedCount |-> r.prunedCount]

prune(h, self, threshold) ==
    LET r == PruneWeights(h[self.weights], WPositions(h[self.weights]), threshold, 0)
    IN  [h |-> [h EXCEPT ![self.weights] = r.arr], prunedCount |-> r.prunedCount]

toJSON(self) ==
    [layers |-> self.layers,
     activationName |-> self.activationName,
     weights |-> self.weights,
     biases |-> self.biases]

fromJSON(h, json) ==
    constructor(h, [layers |-> json.layers,
                    activation |-> IF json.activationName \in ActivationFns
                                   THEN json.activationName ELSE "sigmoid",
                    activationName |-> IF Falsy(json.activationName) THEN "sigmoid"
                                       ELSE json.activationName,
                    weights |-> json.weights,
                    biases |-> json.biases], <<>>)

(***************************************************************************)
(* What the callers pass.                                                  *)
(***************************************************************************)
Topologies == {<<1>>, <<1, 1>>, <<2, 1>>}
Rates == {0, Unit \div 2, Unit}
Amounts == {-Unit, 0, Unit}
Thresholds == {0, Unit \div 2, Unit, MaxW * Unit}

\* the activation and activationName options of a construction
ActivationOptions ==
    {<<Undefined, Undefined>>, <<"relu", "relu">>, <<"relu", Undefined>>}

\* the next n draws of Math.random()
Streams(n) == [1..n -> RandomDraws]

\* the draws of a call of mutate over n elements: one draw per element, and
\* a second one for every element whose first draw is below rate
RECURSIVE MutateStreams(_, _)
MutateStreams(n, rate) ==
    IF n = 0 THEN {<<>>}
    ELSE LET first == {<<u>> : u \in {x \in RandomDraws : ~(x < rate)}}
                      \cup {<<u, a>> : u \in {x \in RandomDraws : x < rate},
                                       a \in RandomDraws}
         IN  {d \o rest : d \in first, rest \in MutateStreams(n - 1, rate)}

Weights(v) == heap[nets[v].weights]
Biases(v) == heap[nets[v].biases]
Layers(v) == heap[nets[v].layers]

NumElements(h, self) ==
    Len(WPositions(h[self.weights])) + Len(BPositions(h[self.biases]))

Range(s) == {s[n] : n \in 1..Len(s)}

\* every weight and bias of the object is within the bound of the model
InRange(h, self) ==
    /\ \A p \in Range(WPositions(h[self.weights])) :
           Abs(h[self.weights][p[1]][p[2]][p[3]]) <= MaxW * Unit
    /\ \A p \in Range(BPositions(h[self.biases])) :
           Abs(h[self.biases][p[1]][p[2]]) <= MaxW * Unit

\* a call: its name, the variables of its receiver, its argument and its
\* result, its numeric arguments, the number it returned, and whether it
\* returned NaN or threw
Call(op, self, other, dst, a1, a2, value, threw) ==
    [op |-> op, self |-> self, other |-> other, dst |-> dst,
     a1 |-> a1, a2 |-> a2, value |-> value, nan |-> FALSE, threw |-> threw]

NoCall == Call("none", 0, 0, 0, 0, 0, 0, FALSE)

\* the variable v is assigned the object obj, the call having left the heap h
Assign(v, obj, h) ==
    \E c \in {Collect((v :> obj) @@ nets, h)} :
        nets' = c.nets /\ heap' = c.heap

(***************************************************************************)
(* The calls a program makes on the networks its variables hold.           *)
(***************************************************************************)
\* v = new NeuralNetwork({layers, activation, activationName})
New(v, layers, act, rnd) ==
    /\ \E l \in {Alloc(heap, layers)} :
         \E made \in {constructor(l.h, [layers |-> l.addr,
                                        activation |-> act[1],
                                        activationName |-> act[2],
                                        weights |-> NoAddr,
                                        biases |-> NoAddr], rnd)} :
            Assign(v, made.obj, made.h)
    /\ ret' = Call("new", 0, 0, v, 0, 0, 0, FALSE)
    /\ UNCHANGED <<frames, sim, harness>>

\* v.mutate(rate, amount)
Mutate(v, rate, amount, rnd) ==
    /\ v \in DOMAIN nets
    /\ \E h \in {mutate(heap, nets[v], rate, amount, rnd)} :
           /\ InRange(h, nets[v])
           /\ heap' = h
    /\ nets' = nets
    /\ ret' = Call("mutate", v, 0, 0, rate, amount, 0, FALSE)
    /\ UNCHANGED <<frames, sim, harness>>

\* v.prune(threshold)
Prune(v, threshold) ==
    /\ v \in DOMAIN nets
    /\ \E r \in {prune(heap, nets[v], threshold)} :
           /\ heap' = r.h
           /\ ret' = Call("prune", v, 0, 0, threshold, 0, r.prunedCount, FALSE)
    /\ nets' = nets
    /\ UNCHANGED <<frames, sim, harness>>

\* d = a.crossover(b, crossoverRate); when crossover throws, d is not assigned
Crossover(d, a, b, crossoverRate, rnd) ==
    /\ a \in DOMAIN nets
    /\ b \in DOMAIN nets
    /\ \E r \in {crossover(heap, nets[a], nets[b], crossoverRate, rnd)} :
           IF r.threw
           THEN /\ UNCHANGED <<nets, heap>>
                /\ ret' = Call("crossover", a, b, 0, crossoverRate, 0, 0, TRUE)
           ELSE /\ Assign(d, r.obj, r.h)
                /\ ret' = Call("crossover", a, b, d, crossoverRate, 0, 0, FALSE)
    /\ UNCHANGED <<frames, sim, harness>>

\* d = a.clone()
Clone(d, a) ==
    /\ a \in DOMAIN nets
    /\ \E r \in {clone(heap, nets[a])} : Assign(d, r.obj, r.h)
    /\ ret' = Call("clone", a, 0, d, 0, 0, 0, FALSE)
    /\ UNCHANGED <<frames, sim, harness>>

\* d = NeuralNetwork.fromJSON(a.toJSON())
Deserialize(d, a) ==
    /\ a \in DOMAIN nets
    /\ \E r \in {fromJSON(heap, toJSON(nets[a]))} : Assign(d, r.obj, r.h)
    /\ ret' = Call("fromJSON", a, 0, d, 0, 0, 0, FALSE)
    /\ UNCHANGED <<frames, sim, harness>>

\* v.useOptimizedOperations = optimized; v.feedForward(inputs)
FeedForward(v, optimized, inputs) ==
    /\ v \in DOMAIN nets
    /\ \E r \in {feedForward(heap, [nets[v] EXCEPT !.useOptimizedOperations = optimized],
                              inputs)} :
           /\ nets' = [nets EXCEPT ![v].useOptimizedOperations = optimized,
                                    ![v].layerOutputs = r.layerOutputs]
           /\ ret' = Call("feedForward", v, 0, 0, inputs, 0, r.out, FALSE)
    /\ heap' = heap
    /\ UNCHANGED <<frames, sim, harness>>

\* v.feedForward(other); v.feedForward(inputs)
FeedForwardAfter(v, other, inputs) ==
    /\ v \in DOMAIN nets
    /\ \E r \in {feedForward(heap, nets[v], other)} :
         \E q \in {feedForward(heap, [nets[v] EXCEPT !.layerOutputs = r.layerOutputs],
                                 inputs)} :
            /\ nets' = [nets EXCEPT ![v].layerOutputs = q.layerOutputs]
            /\ ret' = Call("feedForward", v, 0, 0, inputs, 0, q.out, FALSE)
    /\ heap' = heap
    /\ UNCHANGED <<frames, sim, harness>>

\* v = new NeuralNetwork({layers, weights, biases}), on arrays of the caller
NewFrom(v, layers, weights, biases) ==
    /\ \E l \in {Alloc(heap, layers)} :
         \E w \in {Alloc(l.h, weights)} :
          \E b \in {Alloc(w.h, biases)} :
           \E made \in {constructor(b.h, [layers |-> l.addr,
                                          activation |-> Undefined,
                                          activationName |-> Undefined,
                                          weights |-> w.addr,
                                          biases |-> b.addr], <<>>)} :
              Assign(v, made.obj, made.h)
    /\ ret' = Call("new", 0, 0, v, 0, 0, 0, FALSE)
    /\ UNCHANGED <<frames, sim, harness>>

\* v = NeuralNetwork.fromJSON({layers, activationName, weights, biases}), on
\* a record of the caller
Load(v, layers, activationName, weights, biases) ==
    /\ \E l \in {Alloc(heap, layers)} :
         \E w \in {Alloc(l.h, weights)} :
          \E b \in {Alloc(w.h, biases)} :
           \E made \in {fromJSON(b.h, [layers |-> l.addr,
                                       activationName |-> activationName,
                                       weights |-> w.addr,
                                       biases |-> b.addr])} :
              Assign(v, made.obj, made.h)
    /\ ret' = Call("fromJSON", 0, 0, v, activationName, 0, 0, FALSE)
    /\ UNCHANGED <<frames, sim, harness>>

\* a.difference(a.clone()); the clone is dropped after the call
DifferenceFromClone(a) ==
    /\ a \in DOMAIN nets
    /\ \E c \in {clone(heap, nets[a])} :
         \E r \in {difference(c.h, nets[a], c.obj)} :
            ret' = [Call("differenceFromClone", a, 0, 0, 0, 0, r.value, r.threw)
                       EXCEPT !.nan = r.nan]
    /\ UNCHANGED <<nets, heap>>
    /\ UNCHANGED <<frames, sim, harness>>

\* a.difference(b)
Difference(a, b) ==
    /\ a \in DOMAIN nets
    /\ b \in DOMAIN nets
    /\ \E r \in {difference(heap, nets[a], nets[b])} :
           ret' = [Call("difference", a, b, 0, 0, 0, r.value, r.threw)
                      EXCEPT !.nan = r.nan]
    /\ UNCHANGED <<nets, heap>>
    /\ UNCHANGED <<frames, sim, harness>>

(***************************************************************************)
(* A program on one network: it constructs a network, may mutate it, and   *)
(* then prunes it twice with one threshold, or copies it (clone, or        *)
(* toJSON and fromJSON) and changes the original or the copy in place.     *)
(* The second program constructs two networks, and then compares them or   *)
(* crosses them into a third variable and changes one of the three.        *)
(***************************************************************************)
Init ==
    /\ nets = <<>>
    /\ heap = <<>>
    /\ ret = NoCall
    /\ pc = "init"
    /\ frames = <<>>
    /\ sim = <<>>
    /\ harness = <<>>

Construct ==
    /\ pc = "init"
    /\ \E layers \in Topologies, act \in ActivationOptions :
          \E rnd \in Streams(InitDraws(layers)) : New(1, layers, act, rnd)
    /\ pc' = "one"

MutateOne ==
    /\ pc = "one"
    /\ \E rate \in Rates, amount \in Amounts :
          \E rnd \in Streams(2 * NumElements(heap, nets[1])) :
              Mutate(1, rate, amount, rnd)
    /\ pc' = "mutated"

PruneOnce ==
    /\ pc \in {"one", "mutated"}
    /\ \E threshold \in Thresholds : Prune(1, threshold)
    /\ pc' = "pruned"

PruneAgain ==
    /\ pc = "pruned"
    /\ Prune(1, ret.a1)
    /\ pc' = "pruned twice"

CloneOne ==
    /\ pc = "one"
    /\ Clone(2, 1)
    /\ pc' = "cloned"

DeserializeOne ==
    /\ pc = "one"
    /\ Deserialize(2, 1)
    /\ pc' = "deserialized"

\* where the program stands once it has changed a network or its copy
Changed(p) == IF p = "cloned" THEN "cloned, changed" ELSE "deserialized, changed"

MutateEither ==
    /\ pc \in {"cloned", "deserialized"}
    /\ \E v \in {1, 2}, rate \in Rates, amount \in Amounts :
          \E rnd \in Streams(2 * NumElements(heap, nets[v])) :
              Mutate(v, rate, amount, rnd)
    /\ pc' = Changed(pc)

PruneEither ==
    /\ pc \in {"cloned", "deserialized"}
    /\ \E v \in {1, 2}, threshold \in Thresholds : Prune(v, threshold)
    /\ pc' = Changed(pc)

Next ==
    \/ Construct
    \/ MutateOne
    \/ PruneOnce
    \/ PruneAgain
    \/ CloneOne
    \/ DeserializeOne
    \/ MutateEither
    \/ PruneEither

Spec == Init /\ [][Next]_vars

(***************************************************************************)
(* A program on two networks: it constructs them, and then compares them   *)
(* or crosses them into a third variable and changes one of the three in   *)
(* place.                                                                  *)
(***************************************************************************)
ConstructFirst ==
    /\ pc = "init"
    /\ \E layers \in Topologies, act \in {<<Undefined, Undefined>>, <<"relu", "relu">>} :
          \E rnd \in Streams(InitDraws(layers)) : New(1, layers, act, rnd)
    /\ pc' = "one"

ConstructSecond ==
    /\ pc = "one"
    /\ \E layers \in Topologies :
          \E rnd \in Streams(InitDraws(layers)) :
              New(2, layers, <<Undefined, Undefined>>, rnd)
    /\ pc' = "two"

CrossoverPair ==
    /\ pc = "two"
    /\ \E ab \in {<<1, 2>>, <<2, 1>>}, rate \in Rates :
          \E rnd \in Streams(NumElements(heap, nets[ab[1]])) :
              Crossover(3, ab[1], ab[2], rate, rnd)
    /\ pc' = "crossed"

DifferencePair ==
    /\ pc = "two"
    /\ \E ab \in {<<1, 2>>, <<2, 1>>} : Difference(ab[1], ab[2])
    /\ pc' = "compared"

MutateAny ==
    /\ pc = "crossed"
    /\ \E v \in DOMAIN nets :
          \E rnd \in MutateStreams(NumElements(heap, nets[v]), Unit \div 2) :
              Mutate(v, Unit \div 2, Unit, rnd)
    /\ pc' = "done"

PruneAny ==
    /\ pc = "crossed"
    /\ \E v \in DOMAIN nets, threshold \in Thresholds : Prune(v, threshold)
    /\ pc' = "done"

NextPair ==
    \/ ConstructFirst
    \/ ConstructSecond
    \/ CrossoverPair
    \/ DifferencePair
    \/ MutateAny
    \/ PruneAny

SpecPair == Init /\ [][NextPair]_vars

(***************************************************************************)
(* The third program does what the first two do, and it may also evaluate  *)
(* the one network, on either path and on an input of any length, or       *)
(* compare a network with itself or with a clone of it.                    *)
(***************************************************************************)
InputValues == {-Unit, Unit}

\* the input vectors a caller passes to a network of n inputs: of the right
\* length, one short and one long
InputVectors(n) ==
    UNION {[1..m -> InputValues] : m \in {k \in {n - 1, n, n + 1} : k >= 0}}

EvaluateOne ==
    /\ pc \in {"one", "mutated"}
    /\ \E optimized \in BOOLEAN, inputs \in InputVectors(Layers(1)[1]) :
          FeedForward(1, optimized, inputs)
    /\ pc' = "evaluated"

DifferenceSelf ==
    /\ pc \in {"one", "mutated", "pruned", "crossed"}
    /\ \E v \in DOMAIN nets : Difference(v, v)
    /\ pc' = "compared"

DifferenceClone ==
    /\ pc \in {"one", "mutated", "pruned", "crossed"}
    /\ \E v \in DOMAIN nets : DifferenceFromClone(v)
    /\ pc' = "compared"

NextAll ==
    \/ Next
    \/ ConstructSecond
    \/ CrossoverPair
    \/ DifferencePair
    \/ MutateAny
    \/ PruneAny
    \/ EvaluateOne
    \/ DifferenceSelf
    \/ DifferenceClone

SpecAll == Init /\ [][NextAll]_vars

(***************************************************************************)
(* The fourth program builds its network on arrays that it supplies, to    *)
(* the constructor or in a record to fromJSON, and then prunes it.         *)
(***************************************************************************)
SuppliedWeights == {<<>>, <<<<<<Unit>>>>>>, <<<<<<Unit, 0>>>>>>}
SuppliedBiases == {<<>>, <<<<0>>>>, <<<<0, Unit>>>>}
RecordNames == ActivationFns \cup {"swish"}

ConstructFrom ==
    /\ pc = "init"
    /\ \E layers \in Topologies, w \in SuppliedWeights, b \in SuppliedBiases :
          NewFrom(1, layers, w, b)
    /\ pc' = "supplied"

LoadRecord ==
    /\ pc = "init"
    /\ \E layers \in Topologies, name \in RecordNames,
          w \in SuppliedWeights, b \in SuppliedBiases :
          Load(1, layers, name, w, b)
    /\ pc' = "loaded"

PruneSupplied ==
    /\ pc \in {"supplied", "loaded"}
    /\ \E threshold \in Thresholds : Prune(1, threshold)
    /\ pc' = "done"

NextRecords ==
    \/ ConstructFrom
    \/ LoadRecord
    \/ PruneSupplied

SpecRecords == Init /\ [][NextRecords]_vars

(***************************************************************************)
(* The fifth program loads a network whose layer of inputs is three, four  *)
(* or five wide, evaluates it on either path, and then evaluates it on     *)
(* another input and on the first input again.                             *)
(***************************************************************************)
WideTopologies == {<<3, 1>>, <<4, 1>>, <<5, 1>>}
WideNames == {"sigmoid", "relu"}

\* the weights of the one neuron: hundredths and ones
WideWeights(n) == {<<<<row>>>> : row \in [1..n -> {1, Unit}]}

\* its bias: zero, or a number whose neighbours are two hundredths apart
WideBiases == {<<<<0>>>>, <<<<2 ^ Precision>>>>}

LoadWide ==
    /\ pc = "init"
    /\ \E layers \in WideTopologies, name \in WideNames, b \in WideBiases :
         \E w \in WideWeights(layers[1]) :
            Load(1, layers, name, w, b)
    /\ pc' = "wide"

EvaluateWide ==
    /\ pc = "wide"
    /\ \E optimized \in BOOLEAN, inputs \in [1..Layers(1)[1] -> InputValues] :
          FeedForward(1, optimized, inputs)
    /\ pc' = "forwarded"

EvaluateAgain ==
    /\ pc = "forwarded"
    /\ \E other \in [1..Layers(1)[1] -> InputValues] :
          FeedForwardAfter(1, other, ret.a1)
    /\ pc' = "forwarded again"

NextForward ==
    \/ LoadWide
    \/ EvaluateWide
    \/ EvaluateAgain

SpecForward == Init /\ [][NextForward]_vars

(***************************************************************************)
(* The sixth program constructs a network and starts two evaluations of    *)
(* it, whose steps (the head of feedForward, each pass of its layer loop,  *)
(* its return) interleave.                                                 *)
(***************************************************************************)
DeepTopologies == {<<1, 1>>, <<1, 1, 1>>}
Evaluations == {1, 2}

ConstructDeep ==
    /\ pc = "init"
    /\ \E layers \in DeepTopologies, act \in ActivationOptions :
          \E rnd \in Streams(InitDraws(layers)) : New(1, layers, act, rnd)
    /\ pc' = "started"

\* evaluation e enters feedForward
Begin(e) ==
    /\ pc = "started"
    /\ e \notin DOMAIN frames
    /\ \E inputs \in [1..Layers(1)[1] -> InputValues] :
         \E r \in {forwardBegin(nets[1], inputs)} :
            /\ frames' = (e :> r.frame) @@ frames
            /\ nets' = [nets EXCEPT ![1].layerOutputs = r.layerOutputs]
    /\ UNCHANGED <<heap, ret, pc, sim, harness>>

\* evaluation e runs one pass of the layer loop
Step(e) ==
    /\ pc = "started"
    /\ e \in DOMAIN frames
    /\ ~frames[e].returned
    /\ frames[e].i <= Len(Weights(1))
    /\ \E r \in {forwardStep(heap, nets[1], frames[e])} :
          /\ frames' = [frames EXCEPT ![e] = r.frame]
          /\ nets' = [nets EXCEPT ![1].layerOutputs = r.layerOutputs]
    /\ UNCHANGED <<heap, ret, pc, sim, harness>>

\* evaluation e leaves the layer loop and returns its outputs
Return(e) ==
    /\ pc = "started"
    /\ e \in DOMAIN frames
    /\ ~frames[e].returned
    /\ ~(frames[e].i <= Len(Weights(1)))
    /\ frames' = [frames EXCEPT ![e].returned = TRUE]
    /\ ret' = Call("feedForward", 1, 0, 0, frames[e].inputs, 0, frames[e].outputs, FALSE)
    /\ pc' = IF \A o \in Evaluations \ {e} : o \in DOMAIN frames /\ frames[o].returned
             THEN "both returned" ELSE "started"
    /\ UNCHANGED <<nets, heap, sim, harness>>

NextInterleaved ==
    \/ ConstructDeep
    \/ \E e \in Evaluations : Begin(e)
    \/ \E e \in Evaluations : Step(e)
    \/ \E e \in Evaluations : Return(e)

SpecInterleaved == Init /\ [][NextInterleaved]_vars

(***************************************************************************)
(* The Simulation class of js/utils/TestHarness.js.  Positions, energies,  *)
(* ages and fitnesses are in hundredths; times are in milliseconds.  The   *)
(* network of a creature is kept as the number of mutate calls made on it, *)
(* and the frame counters of update (lastFrameTime, frameCount, fps) as the *)
(* time that update finds elapsed.                                         *)
(***************************************************************************)
InitialCreatureCount == 1   \* config.initialCreatureCount
InitialPlantCount == 1      \* config.initialPlantCount
MaxGeneration == 1          \* update runs while generation is below it

GenerationLength == 60 * 1000
MutationRate == Unit \div 10

\* Outcomes of Math.random() in the simulation: 0.0 and 0.99
SimDraws == {0, Unit - 1}

\* what update finds elapsed since the frame before, in milliseconds
FrameTimes == {GenerationLength \div 2}

Sizes == {"small", "medium", "large", "huge"}

Min(a, b) == IF a < b THEN a ELSE b
Max(a, b) == IF a > b THEN a ELSE b

\* sizeMap[this.config.environmentSize] || 1000
getEnvironmentWidth(self) ==
    CASE self.config.environmentSize = "small" -> 500
      [] self.config.environmentSize = "medium" -> 1000
      [] self.config.environmentSize = "large" -> 2000
      [] OTHER -> 1000

getEnvironmentHeight(self) ==
    CASE self.config.environmentSize = "small" -> 500
      [] self.config.environmentSize = "medium" -> 1000
      [] self.config.environmentSize = "large" -> 2000
      [] OTHER -> 1000

\* the draws of one initializeEntities call
EntityDraws == 2 * InitialCreatureCount + 2 * InitialPlantCount

initializeEntities(self, rnd) ==
    [self EXCEPT
        !.creatures = [n \in 1..self.config.initialCreatureCount |->
            [x |-> rnd[2 * n - 1] * self.environment.width,
             y |-> rnd[2 * n] * self.environment.height,
             energy |-> 100 * Unit, age |-> 0, fitness |-> 0, network |-> 0]],
        !.plants = [n \in 1..self.config.initialPlantCount |->
            [x |-> rnd[2 * self.config.initialCreatureCount + 2 * n - 1]
                       * self.environment.width,
             y |-> rnd[2 * self.config.initialCreatureCount + 2 * n]
                       * self.environment.height,
             energy |-> 50 * Unit]]]

\* the constructor and init
Simulation(rnd) ==
    LET config == [environmentSize |-> "medium",
                   initialCreatureCount |-> InitialCreatureCount,
                   initialPlantCount |-> InitialPlantCount,
                   generationLength |-> GenerationLength,
                   mutationRate |-> MutationRate]
        made == [running |-> FALSE, speed |-> 1, generation |-> 0,
                 timeSinceLastUpdate |-> 0, config |-> config,
                 creatures |-> <<>>, plants |-> <<>>]
        env == [width |-> getEnvironmentWidth(made),
                height |-> getEnvironmentHeight(made),
                resources |-> 1000]
    IN  initializeEntities(made @@ [environment |-> env], rnd)

start(self) == IF ~self.running THEN [self EXCEPT !.running = TRUE] ELSE self

pause(self) == IF self.running THEN [self EXCEPT !.running = FALSE] ELSE self

\* reset without its call of pause
resetRunning(self, rnd) ==
    initializeEntities([self EXCEPT !.generation = 0,
                                    !.timeSinceLastUpdate = 0,
                                    !.environment.resources = 1000], rnd)

reset(self, rnd) ==
    initializeEntities([pause(self) EXCEPT !.generation = 0,
                                           !.timeSinceLastUpdate = 0,
                                           !.environment.resources = 1000], rnd)

\* repositionEntities as it would be if it left the plants where they are
repositionCreatures(self) ==
    [self EXCEPT
        !.creatures = [n \in DOMAIN @ |->
            [@[n] EXCEPT !.x = Min(@, self.environment.width * Unit),
                         !.y = Min(@, self.environment.height * Unit)]]]

repositionEntities(self) ==
    [self EXCEPT
        !.creatures = [n \in DOMAIN @ |->
            [@[n] EXCEPT !.x = Min(@, self.environment.width * Unit),
                         !.y = Min(@, self.environment.height * Unit)]],
        !.plants = [n \in DOMAIN @ |->
            [@[n] EXCEPT !.x = Min(@, self.environment.width * Unit),
                         !.y = Min(@, self.environment.height * Unit)]]]

setEnvironmentSize(self, size) ==
    IF self.config.environmentSize # size
    THEN LET named == [self EXCEPT !.config.environmentSize = size]
             sized == [named EXCEPT !.environment.width = getEnvironmentWidth(named),
                                    !.environment.height = getEnvironmentHeight(named)]
         IN  repositionEntities(sized)
    ELSE self

\* rnd holds one draw for every creature
nextGeneration(self, rnd) ==
    [self EXCEPT
        !.generation = @ + 1,
        !.creatures = [n \in DOMAIN @ |->
            [@[n] EXCEPT !.energy = 100 * Unit, !.age = 0, !.fitness = 0,
                         !.network = IF rnd[n] < self.config.mutationRate
                                     THEN @ + 1 ELSE @]]]

\* deltaTime in hundredths of a frame; rnd holds two draws for every creature
updateEntities(self, deltaTime, rnd) ==
    [self EXCEPT
        !.creatures = [n \in DOMAIN @ |->
            [@[n] EXCEPT
                !.x = Max(0, Min(self.environment.width * Unit,
                                 @ + (rnd[2 * n - 1] - Unit \div 2) * 2)),
                !.y = Max(0, Min(self.environment.height * Unit,
                                 @ + (rnd[2 * n] - Unit \div 2) * 2)),
                !.age = @ + deltaTime,
                !.energy = @ - deltaTime \div 10,
                !.fitness = @ + deltaTime \div 100]],
        !.plants = [n \in DOMAIN @ |->
            [@[n] EXCEPT !.energy = IF @ < 100 * Unit
                                    THEN @ + deltaTime \div 20 ELSE @]]]

\* elapsed is now - this.lastFrameTime; rnd holds three draws for every
\* creature, those of nextGeneration first
update(self, elapsed, rnd) ==
    IF ~self.running THEN self
    ELSE
    LET scaledDelta == elapsed * self.speed
        since == self.timeSinceLastUpdate + scaledDelta
        count == Len(self.creatures)
        aged == IF since >= self.config.generationLength
                THEN [nextGeneration(self, SubSeq(rnd, 1, count))
                         EXCEPT !.timeSinceLastUpdate = 0]
                ELSE [self EXCEPT !.timeSinceLastUpdate = since]
    IN  updateEntities(aged, (scaledDelta * 60 * Unit) \div 1000,
                       SubSeq(rnd, count + 1, 3 * count))

(***************************************************************************)
(* The seventh program constructs a simulation, and the user starts,       *)
(* pauses, resets and resizes it while the animation loop calls update.    *)
(***************************************************************************)
ConstructSimulation ==
    /\ pc = "init"
    /\ \E rnd \in [1..EntityDraws -> SimDraws] : sim' = <<Simulation(rnd)>>
    /\ pc' = "simulating"
    /\ ret' = Call("new Simulation", 0, 0, 0, 0, 0, 0, FALSE)
    /\ UNCHANGED <<nets, heap, frames, harness>>

Start ==
    /\ pc = "simulating"
    /\ sim' = <<start(sim[1])>>
    /\ ret' = Call("start", 0, 0, 0, 0, 0, 0, FALSE)
    /\ UNCHANGED <<nets, heap, pc, frames, harness>>

Pause ==
    /\ pc = "simulating"
    /\ sim' = <<pause(sim[1])>>
    /\ ret' = Call("pause", 0, 0, 0, 0, 0, 0, FALSE)
    /\ UNCHANGED <<nets, heap, pc, frames, harness>>

Reset ==
    /\ pc = "simulating"
    /\ \E rnd \in [1..EntityDraws -> SimDraws] : sim' = <<reset(sim[1], rnd)>>
    /\ ret' = Call("reset", 0, 0, 0, 0, 0, 0, FALSE)
    /\ UNCHANGED <<nets, heap, pc, frames, harness>>

SetEnvironmentSize ==
    /\ pc = "simulating"
    /\ \E size \in Sizes :
          /\ sim' = <<setEnvironmentSize(sim[1], size)>>
          /\ ret' = Call("setEnvironmentSize", 0, 0, 0, size, 0, 0, FALSE)
    /\ UNCHANGED <<nets, heap, pc, frames, harness>>

Update ==
    /\ pc = "simulating"
    /\ sim[1].generation < MaxGeneration
    /\ \E elapsed \in FrameTimes, rnd \in [1..3 * Len(sim[1].creatures) -> SimDraws] :
          /\ sim' = <<update(sim[1], elapsed, rnd)>>
          /\ ret' = Call("update", 0, 0, 0, elapsed, 0, 0, FALSE)
    /\ UNCHANGED <<nets, heap, pc, frames, harness>>

NextSimulation ==
    \/ ConstructSimulation
    \/ Start
    \/ Pause
    \/ Reset
    \/ SetEnvironmentSize
    \/ Update

SpecSimulation == Init /\ [][NextSimulation]_vars

(***************************************************************************)
(* The TestHarness class of js/utils/TestHarness.js.  A handler (a click   *)
(* on "Run Performance Tests", a timer that fires, an update event of the  *)
(* simulation) runs to its end together with the promise reactions that it *)
(* queues.  The timers all wait 10 seconds, so they fire in the order in   *)
(* which they were set.  perfMetrics is kept as the number of samples in   *)
(* its arrays, and a result as the number of samples it was computed from. *)
(***************************************************************************)
MaxRuns == 2        \* runPerformanceTests is invoked at most this often
MaxSamples == 1     \* collectMetrics records at most this many samples

\* the constructor
TestHarness ==
    [testResults |-> <<>>, testQueue |-> <<>>, runningTest |-> FALSE,
     perfMetrics |-> 0,
     timers |-> <<>>,   \* the setTimeout callbacks that wait
     runs |-> <<>>,     \* the promise of every runPerformanceTests call
     log |-> <<>>]      \* the tests that started and ended, and in which call

collectMetrics(self) ==
    IF ~self.runningTest THEN self ELSE [self EXCEPT !.perfMetrics = @ + 1]

resetMetrics(self) == [self EXCEPT !.perfMetrics = 0]

calculatePerformanceMetrics(self) == self.perfMetrics

\* the reactions of runPerformanceTests to the promise of runNextTest
settle(self, run, outcome) ==
    [self EXCEPT !.runningTest = FALSE, !.runs[run] = outcome]

\* runNextTest and the tests it starts, in the call run of
\* runPerformanceTests; this.simulation.reset() draws rnd, or throws
RECURSIVE runNextTest(_, _, _, _, _)
runNextTest(self, simulation, run, rnd, throws) ==
    IF self.testQueue = <<>>
    THEN [harness |-> settle(self, run, "resolved"), sim |-> simulation]
    ELSE
    LET nextTest == Head(self.testQueue)
        shifted == [self EXCEPT !.testQueue = Tail(@),
                                !.log = Append(@, <<run, "start", nextTest>>)]
        waiting == [shifted EXCEPT !.timers = Append(@, [test |-> nextTest, run |-> run])]
    IN  CASE nextTest = "testBasePerformance" ->
                IF throws
                THEN [harness |-> settle(shifted, run, "rejected"), sim |-> simulation]
                ELSE [harness |-> waiting, sim |-> reset(simulation, rnd)]
          [] nextTest = "testHighPopulationPerformance" ->
                IF throws
                THEN [harness |-> settle(shifted, run, "rejected"), sim |-> simulation]
                ELSE [harness |-> resetMetrics(waiting), sim |-> reset(simulation, rnd)]
          [] nextTest = "testNeuralNetworkEfficiency" ->
                runNextTest(
                    [shifted EXCEPT
                        !.testResults = ("neuralNetworkPerformance" :> 0) @@ @,
                        !.log = Append(@, <<run, "end", nextTest>>)],
                    simulation, run, rnd, throws)

\* runPerformanceTests with the high population test first in its queue
runPerformanceTestsUnordered(self, simulation, rnd, throws) ==
    LET queued == [resetMetrics(self) EXCEPT
                      !.runningTest = TRUE,
                      !.testQueue = <<"testHighPopulationPerformance",
                                      "testBasePerformance",
                                      "testNeuralNetworkEfficiency">>,
                      !.runs = Append(@, "pending")]
    IN  runNextTest(queued, simulation, Len(queued.runs), rnd, throws)

runPerformanceTests(self, simulation, rnd, throws) ==
    LET queued == [resetMetrics(self) EXCEPT
                      !.runningTest = TRUE,
                      !.testQueue = <<"testBasePerformance",
                                      "testHighPopulationPerformance",
                                      "testNeuralNetworkEfficiency">>,
                      !.runs = Append(@, "pending")]
    IN  runNextTest(queued, simulation, Len(queued.runs), rnd, throws)

\* the key of testResults under which a test records its result
ResultKey(test) ==
    CASE test = "testBasePerformance" -> "basePerformance"
      [] test = "testHighPopulationPerformance" -> "highPopulationPerformance"
      [] test = "testNeuralNetworkEfficiency" -> "neuralNetworkPerformance"

\* the setTimeout callback of the test that has waited longest
timeout(self, simulation, rnd, throws) ==
    LET timer == Head(self.timers)
        recorded == [self EXCEPT
                        !.timers = Tail(@),
                        !.testResults = (ResultKey(timer.test)
                                             :> calculatePerformanceMetrics(self)) @@ @,
                        !.log = Append(@, <<timer.run, "end", timer.test>>)]
    IN  runNextTest(recorded, simulation, timer.run, rnd, throws)

(***************************************************************************)
(* The eighth program constructs a simulation and a test harness for it;   *)
(* the user clicks "Run Performance Tests", at any time in the one program *)
(* and only when no earlier run is pending in the other, while timers fire *)
(* and the simulation sends update events.                                 *)
(***************************************************************************)
\* the draws of Math.random() while the entities are placed: low ones
\* throughout, or high ones throughout
ResetDraws == {[i \in 1..EntityDraws |-> d] : d \in SimDraws}

ConstructHarness ==
    /\ pc = "init"
    /\ \E rnd \in ResetDraws : sim' = <<Simulation(rnd)>>
    /\ harness' = <<TestHarness>>
    /\ pc' = "testing"
    /\ ret' = Call("new TestHarness", 0, 0, 0, 0, 0, 0, FALSE)
    /\ UNCHANGED <<nets, heap, frames>>

RunTests ==
    /\ pc = "testing"
    /\ Len(harness[1].runs) < MaxRuns
    /\ \E rnd \in ResetDraws, throws \in BOOLEAN :
         \E r \in {runPerformanceTests(harness[1], sim[1], rnd, throws)} :
            /\ harness' = <<r.harness>>
            /\ sim' = <<r.sim>>
    /\ ret' = Call("runPerformanceTests", 0, 0, 0, 0, 0, 0, FALSE)
    /\ UNCHANGED <<nets, heap, pc, frames>>

RunTestsAlone ==
    /\ pc = "testing"
    /\ \A run \in DOMAIN harness[1].runs : harness[1].runs[run] # "pending"
    /\ RunTests

Timeout ==
    /\ pc = "testing"
    /\ harness[1].timers # <<>>
    /\ \E rnd \in ResetDraws, throws \in BOOLEAN :
         \E r \in {timeout(harness[1], sim[1], rnd, throws)} :
            /\ harness' = <<r.harness>>
            /\ sim' = <<r.sim>>
    /\ ret' = Call("timeout", 0, 0, 0, 0, 0, 0, FALSE)
    /\ UNCHANGED <<nets, heap, pc, frames>>

CollectMetrics ==
    /\ pc = "testing"
    /\ harness[1].perfMetrics < MaxSamples
    /\ harness' = <<collectMetrics(harness[1])>>
    /\ ret' = Call("collectMetrics", 0, 0, 0, 0, 0, 0, FALSE)
    /\ UNCHANGED <<nets, heap, pc, frames, sim>>

NextHarness ==
    \/ ConstructHarness
    \/ RunTests
    \/ Timeout
    \/ CollectMetrics

SpecHarness == Init /\ [][NextHarness]_vars

NextAlone ==
    \/ ConstructHarness
    \/ RunTestsAlone
    \/ Timeout
    \/ CollectMetrics

\* the timers fire
SpecAlone == Init /\ [][NextAlone]_vars /\ WF_vars(Timeout)

(***************************************************************************)
(* The claims.                                                             *)
(***************************************************************************)
\* the input vectors of length n that the claims evaluate a network on
Inputs(n) == [1..n -> {-Unit, 0, Unit}]

\* the call that the step made changed no weight and no bias of variable v
Untouched(v) ==
    /\ Weights(v)' = Weights(v)
    /\ Biases(v)' = Biases(v)

\* C1: fromJSON(toJSON(G)) has the topology, weights, biases and bound
\* activation of G, and feedForward returns the same output on both, for
\* every input of length topology[0].
C1_RoundTripEvaluatesIdentically ==
    pc = "deserialized" =>
        /\ Layers(2) = Layers(1)
        /\ Weights(2) = Weights(1)
        /\ Biases(2) = Biases(1)
        /\ nets[2].activation = nets[1].activation
        /\ \A x \in Inputs(Layers(1)[1]) :
               feedForward(heap, nets[2], x).out = feedForward(heap, nets[1], x).out

\* C2: a network obtained by H = fromJSON(toJSON(G)) shares no weight or
\* bias storage with G: a mutate or prune call on one of the two leaves
\* every weight and bias of the other unchanged.
C2_DeserializedSharesNoStorage ==
    [][(pc = "deserialized" /\ pc' = "deserialized, changed")
          => \A v \in {1, 2} \ {ret'.self} : Untouched(v)]_vars

\* C3: clone(G) equals G element-wise (topology, activation, weights and
\* biases) as G is when clone is called, and a later mutate or prune call on
\* the clone leaves every weight and bias of G unchanged, and a call on G
\* leaves the clone unchanged.
C3_CloneIsEqualAndIndependent ==
    [][/\ (pc = "one" /\ pc' = "cloned")
             => /\ Layers(2)' = Layers(1)
                /\ Weights(2)' = Weights(1)
                /\ Biases(2)' = Biases(1)
                /\ nets'[2].activation = nets[1].activation
                /\ nets'[2].activationName = nets[1].activationName
       /\ (pc = "cloned" /\ pc' = "cloned, changed")
             => \A v \in {1, 2} \ {ret'.self} : Untouched(v)]_vars

\* C3, witness: a mutate call on the clone has changed a weight of the clone
C3_Witness ==
    /\ pc = "cloned, changed"
    /\ ret.op = "mutate"
    /\ ret.self = 2
    /\ Weights(2) # Weights(1)
    /\ Biases(2) = Biases(1)

\* weights[i][j][k] and biases[i][j] at a position p = <<i, j, k>>, <<i, j>>
WeightAt(w, p) == w[p[1]][p[2]][p[3]]
BiasAt(b, p) == b[p[1]][p[2]]

\* C4: for parents of identical topology, A.crossover(B, 1.0) has the
\* weights and biases of A, and A.crossover(B, 0.0) those of B, whatever
\* the random draws.
C4_CrossoverExtremes ==
    [][(pc = "two" /\ pc' = "crossed" /\ ~ret'.threw)
          => /\ ret'.a1 = Unit => /\ Weights(3)' = Weights(ret'.self)
                                  /\ Biases(3)' = Biases(ret'.self)
             /\ ret'.a1 = 0 => /\ Weights(3)' = Weights(ret'.other)
                               /\ Biases(3)' = Biases(ret'.other)]_vars

\* C4, witness: a crossover at rate 1.0 of parents that differ in a weight
\* and in a bias has returned a child
C4_Witness ==
    /\ pc = "crossed"
    /\ ~ret.threw
    /\ ret.a1 = Unit
    /\ Weights(1) # Weights(2)
    /\ Biases(1) # Biases(2)
    /\ Weights(3) = Weights(ret.self)

\* C5: crossover throws, returns no child and leaves both networks as they
\* are whenever their topologies differ in length or in an element.
C5_CrossoverRejectsOtherTopology ==
    [][(pc = "two" /\ pc' = "crossed" /\ Layers(ret'.self) # Layers(ret'.other))
          => /\ ret'.threw
             /\ nets' = nets
             /\ heap' = heap]_vars

\* C5, witness: crossover has thrown on two topologies of one length
C5_Witness ==
    /\ pc = "crossed"
    /\ ret.threw
    /\ Len(Layers(1)) = Len(Layers(2))
    /\ 3 \notin DOMAIN nets

\* the arrays of the network that variable v holds
ArraysOf(ns, v) == {ns[v].layers, ns[v].weights, ns[v].biases}

\* C6: the child of crossover owns freshly allocated topology, weight and
\* bias arrays: a mutate or prune call on the child leaves the parents
\* unchanged, and a call on a parent leaves the child and the other parent
\* unchanged.
C6_CrossoverChildOwnsItsArrays ==
    [][/\ (pc = "two" /\ pc' = "crossed" /\ ~ret'.threw)
             => /\ Cardinality(ArraysOf(nets', 3)) = 3
                /\ ArraysOf(nets', 3) \cap (ArraysOf(nets', 1) \cup ArraysOf(nets', 2)) = {}
       /\ (pc = "crossed" /\ pc' = "done")
             => \A v \in DOMAIN nets \ {ret'.self} : Untouched(v)]_vars

\* C6, witness: a mutate call on the child has given its one weight a value
\* that neither parent has
C6_Witness ==
    /\ pc = "done"
    /\ 3 \in DOMAIN nets
    /\ ret.op = "mutate"
    /\ ret.self = 3
    /\ Layers(3) = <<1, 1>>
    /\ Weights(3) \notin {Weights(1), Weights(2)}

\* C7: prune(t), t >= 0, sets to 0 exactly the weights whose absolute value
\* is below t, leaves the other weights and every bias unchanged, and
\* returns the number of weights whose absolute value was below t.
C7_PruneZeroesExactlyTheSmallWeights ==
    [][(pc \in {"one", "mutated"} /\ pc' = "pruned")
          => /\ ret'.a1 >= 0
             /\ WPositions(Weights(1)') = WPositions(Weights(1))
             /\ \A p \in Range(WPositions(Weights(1))) :
                    WeightAt(Weights(1)', p) =
                        IF Abs(WeightAt(Weights(1), p)) < ret'.a1 THEN 0
                        ELSE WeightAt(Weights(1), p)
             /\ Biases(1)' = Biases(1)
             /\ ret'.value = Cardinality({p \in Range(WPositions(Weights(1))) :
                                             Abs(WeightAt(Weights(1), p)) < ret'.a1})]_vars

\* C7, witness: prune has counted one of two weights and left the other,
\* which is not 0
C7_Witness ==
    /\ pc = "pruned"
    /\ Layers(1) = <<2, 1>>
    /\ ret.value = 1
    /\ \E p \in Range(WPositions(Weights(1))) : WeightAt(Weights(1), p) # 0

\* C8: a second prune(t) right after prune(t) changes no weight and no bias
\* and reports 0 elements pruned.
C8_SecondPruneReportsZero ==
    [][(pc = "pruned" /\ pc' = "pruned twice")
          => /\ Untouched(1)
             /\ ret'.value = 0]_vars

\* C9: mutate(0, amount) leaves every weight, every bias, the topology and
\* the activation unchanged, whatever the amount and the random draws.
C9_MutateAtRateZeroChangesNothing ==
    [][(pc = "one" /\ pc' = "mutated" /\ ret'.a1 = 0)
          => /\ heap' = heap
             /\ nets' = nets]_vars

\* C9, witness: mutate(0, amount) has returned on a network of three
\* elements, with an amount that is not 0
C9_Witness ==
    /\ pc = "mutated"
    /\ ret.op = "mutate"
    /\ ret.a1 = 0
    /\ ret.a2 # 0
    /\ Layers(1) = <<2, 1>>

\* the absolute differences of the elements of variables a and b, weights
\* first
ElementDiffs(a, b) ==
    [n \in 1..Len(WPositions(Weights(a))) |->
        Abs(WeightAt(Weights(a), WPositions(Weights(a))[n])
            - WeightAt(Weights(b), WPositions(Weights(a))[n]))]
    \o [n \in 1..Len(BPositions(Biases(a))) |->
        Abs(BiasAt(Biases(a), BPositions(Biases(a))[n])
            - BiasAt(Biases(b), BPositions(Biases(a))[n]))]

\* C10: on two networks of one shape, difference returns the sum of the
\* absolute element-wise differences of all weights and biases divided by
\* the number of elements, and 0 when there is no element.
C10_DifferenceIsMeanAbsoluteDifference ==
    (pc = "compared" /\ Layers(ret.self) = Layers(ret.other))
        => /\ ~ret.threw
           /\ ~ret.nan
           /\ ret.value =
                 IF Len(ElementDiffs(ret.self, ret.other)) = 0 THEN 0
                 ELSE SumSeq(ElementDiffs(ret.self, ret.other))
                         \div Len(ElementDiffs(ret.self, ret.other))

\* C10, witness: difference has returned a positive number on two networks
\* of topology [2, 1]
C10_Witness ==
    /\ pc = "compared"
    /\ Layers(1) = <<2, 1>>
    /\ Layers(2) = <<2, 1>>
    /\ ret.value > 0

\* C11: G.difference(G) is 0, and so is G.difference(G.clone()), for every
\* network that initialisation, mutate, prune and crossover reach.
C11_DifferenceFromItselfIsZero ==
    (/\ pc = "compared"
     /\ \/ ret.op = "differenceFromClone"
        \/ ret.op = "difference" /\ ret.self = ret.other)
        => /\ ~ret.threw
           /\ ~ret.nan
           /\ ret.value = 0

\* C11, witness: the child of a crossover, with a weight that is not 0, has
\* been compared with a clone of itself
C11_Witness ==
    /\ pc = "compared"
    /\ ret.op = "differenceFromClone"
    /\ ret.self = 3
    /\ \E p \in Range(WPositions(Weights(3))) : WeightAt(Weights(3), p) # 0

\* a topology has two entries or more, each a positive integer
ValidTopology(l) ==
    /\ Len(l) >= 2
    /\ \A i \in 1..Len(l) : l[i] \in Nat \ {0}

\* C12: difference on two networks whose topologies differ, in length or in
\* the width of a layer, fails with an error; it returns no number.
C12_DifferenceRejectsOtherTopology ==
    (/\ pc = "compared"
     /\ ret.op = "difference"
     /\ ValidTopology(Layers(ret.self))
     /\ ValidTopology(Layers(ret.other))
     /\ Layers(ret.self) # Layers(ret.other))
        => ret.threw

\* the shape invariants: one layer of weights and one of biases per pair of
\* consecutive layers, a neuron per entry of the upper layer, a weight per
\* entry of the lower one
ShapeOK(l, w, b) ==
    /\ Len(w) = Len(l) - 1
    /\ Len(b) = Len(l) - 1
    /\ \A i \in 1..(Len(l) - 1) :
          /\ Len(w[i]) = l[i + 1]
          /\ \A j \in 1..Len(w[i]) : Len(w[i][j]) = l[i]
          /\ Len(b[i]) = l[i + 1]

\* C13: on a network of topology [n0..nk] that satisfies the shape
\* invariants, feedForward on an input of length n0 returns a vector of
\* exactly nk elements, on the optimized and on the plain path.
C13_OutputHasTheLengthOfTheLastLayer ==
    (/\ pc = "evaluated"
     /\ ShapeOK(Layers(ret.self), Weights(ret.self), Biases(ret.self))
     /\ Len(ret.a1) = Layers(ret.self)[1])
        => /\ ~ret.threw
           /\ Len(ret.value) = Layers(ret.self)[Len(Layers(ret.self))]

\* C13, witness: the plain path has returned one element on an input of two
\* to a network of topology [2, 1]
C13_Witness ==
    /\ pc = "evaluated"
    /\ Layers(1) = <<2, 1>>
    /\ ~nets[1].useOptimizedOperations
    /\ Len(ret.a1) = 2
    /\ Len(ret.value) = 1

\* C14: feedForward on an input whose length is not topology[0] fails with
\* an error and returns no output vector.
C14_FeedForwardRejectsOtherLength ==
    (/\ pc = "evaluated"
     /\ ValidTopology(Layers(ret.self))
     /\ Len(ret.a1) # Layers(ret.self)[1])
        => ret.threw

\* C15: no network is constructed on a topology of fewer than 2 entries or
\* with an entry that is not a positive integer.
C15_NoNetworkOnAnInvalidTopology ==
    \A v \in DOMAIN nets : ValidTopology(Layers(v))

\* C16: every network reached from random initialisation by mutate, prune,
\* crossover, clone, toJSON and fromJSON, and feedForward satisfies the shape
\* invariants.
C16_ShapeInvariants ==
    \A v \in DOMAIN nets : ShapeOK(Layers(v), Weights(v), Biases(v))

\* C16, witness: the child of a crossover of two networks of topology
\* [2, 1] has been mutated
C16_Witness ==
    /\ pc = "done"
    /\ 3 \in DOMAIN nets
    /\ ret.op = "mutate"
    /\ ret.self = 3
    /\ Layers(3) = <<2, 1>>
    /\ ShapeOK(Layers(3), Weights(3), Biases(3))

\* C17: a network is never built on supplied weights and biases whose shapes
\* do not match the supplied topology, by the constructor or by fromJSON.
C17_SuppliedArraysMatchTheTopology ==
    (pc \in {"supplied", "loaded"} /\ 1 \in DOMAIN nets)
        => ShapeOK(Layers(1), Weights(1), Biases(1))

\* C18: fromJSON on a record whose activationName is none of "sigmoid",
\* "relu", "tanh", "leakyRelu" fails and returns no network.
C18_UnknownActivationIsRejected ==
    (pc = "loaded" /\ ret.a1 \notin ActivationFns)
        => /\ ret.threw
           /\ 1 \notin DOMAIN nets

\* C19: the activationName of every network is one of the four names and
\* names the activation function the network holds.
C19_ActivationNameNamesTheActivation ==
    \A v \in DOMAIN nets :
        /\ nets[v].activationName \in ActivationFns
        /\ nets[v].activation = nets[v].activationName

\* the calls that are not mutate or prune
ReadOnlyOps ==
    {"feedForward", "difference", "differenceFromClone", "crossover", "clone", "fromJSON"}

\* topology, weights, biases and activation of the network in variable v
Parameters(v) == <<Layers(v), Weights(v), Biases(v), nets[v].activation>>

\* C20: feedForward, difference, crossover, clone and toJSON leave the
\* topology, weights, biases and activation of the receiver and of the
\* argument unchanged; only mutate and prune change weights or biases.
C20_OnlyMutateAndPruneChangeParameters ==
    [][/\ ret'.op \in ReadOnlyOps
             => \A v \in DOMAIN nets : Parameters(v)' = Parameters(v)
       /\ (\E v \in DOMAIN nets : Weights(v)' # Weights(v) \/ Biases(v)' # Biases(v))
             => ret'.op \in {"mutate", "prune"}]_vars

\* C20, witness: a crossover has returned a child whose weights are those
\* of neither parent
C20_Witness ==
    /\ pc = "crossed"
    /\ ret.op = "crossover"
    /\ ~ret.threw
    /\ Layers(3) = <<2, 1>>
    /\ Weights(3) \notin {Weights(1), Weights(2)}

\* C21: on a network that satisfies the shape invariants and an input of
\* the length of its first layer, the optimized path returns the output
\* vector that the plain path returns.
C21_OptimizedReturnsWhatPlainReturns ==
    (/\ pc = "forwarded"
     /\ ShapeOK(Layers(1), Weights(1), Biases(1))
     /\ Len(ret.a1) = Layers(1)[1])
        => ret.value = feedForward(heap, [nets[1] EXCEPT !.useOptimizedOperations = ~@],
                                   ret.a1).out

\* C22: a feedForward call returns what the call before it on the same
\* input returned, when only feedForward calls (here one on another input,
\* which leaves its layerOutputs in the cache) lie between the two.
C22_ForwardIsDeterministic ==
    [][(pc = "forwarded" /\ pc' = "forwarded again")
           => /\ ret'.a1 = ret.a1
              /\ ret'.value = ret.value]_vars

\* C22, witness: the second call on an input has returned, on a network
\* whose output depends on its input
C22_Witness ==
    /\ pc = "forwarded again"
    /\ ret.op = "feedForward"
    /\ Layers(1) = <<4, 1>>
    /\ nets[1].layerOutputs = <<ret.a1, ret.value>>
    /\ \E other \in [1..4 -> InputValues] :
           feedForward(heap, nets[1], other).out # ret.value

\* C23: the child of A.crossover(B) has the topology, the activation and
\* the activation name of A, and at every weight and bias position the
\* value that A or B has at that position.
C23_ChildTakesEachElementFromAParent ==
    (pc = "crossed" /\ ~ret.threw)
        => /\ Layers(3) = Layers(ret.self)
           /\ nets[3].activation = nets[ret.self].activation
           /\ nets[3].activationName = nets[ret.self].activationName
           /\ WPositions(Weights(3)) = WPositions(Weights(ret.self))
           /\ BPositions(Biases(3)) = BPositions(Biases(ret.self))
           /\ \A p \in Range(WPositions(Weights(3))) :
                  WeightAt(Weights(3), p) \in {WeightAt(Weights(ret.self), p),
                                               WeightAt(Weights(ret.other), p)}
           /\ \A p \in Range(BPositions(Biases(3))) :
                  BiasAt(Biases(3), p) \in {BiasAt(Biases(ret.self), p),
                                            BiasAt(Biases(ret.other), p)}

\* C23, witness: parents of two inputs with different activations have a
\* child that has a weight of the one and a weight of the other
C23_Witness ==
    /\ pc = "crossed"
    /\ ~ret.threw
    /\ Layers(3) = <<2, 1>>
    /\ nets[ret.self].activation # nets[ret.other].activation
    /\ Weights(3)[1][1][1] = Weights(ret.self)[1][1][1]
    /\ Weights(3)[1][1][1] # Weights(ret.other)[1][1][1]
    /\ Weights(3)[1][1][2] = Weights(ret.other)[1][1][2]
    /\ Weights(3)[1][1][2] # Weights(ret.self)[1][1][2]

\* C24: mutate(rate, amount) with amount >= 0 changes every weight and
\* every bias by at most amount, and leaves the topology and the number of
\* layers, neurons and elements as they are.
C24_MutateChangesElementsByAtMostAmount ==
    [][(ret'.op = "mutate" /\ ret'.a2 >= 0)
          => \A v \in DOMAIN nets : v = ret'.self =>
             /\ nets' = nets
             /\ Layers(v)' = Layers(v)
             /\ WPositions(Weights(v))' = WPositions(Weights(v))
             /\ BPositions(Biases(v))' = BPositions(Biases(v))
             /\ \A p \in Range(WPositions(Weights(v))) :
                    Abs(WeightAt(Weights(v), p)' - WeightAt(Weights(v), p)) <= ret'.a2
             /\ \A p \in Range(BPositions(Biases(v))) :
                    Abs(BiasAt(Biases(v), p)' - BiasAt(Biases(v), p)) <= ret'.a2]_vars

\* C24, witness: mutate(0.5, 1.0) on a network of two weights, of which
\* variable 2 holds the clone made before the call, has changed the first
\* weight by the whole amount and has left the second weight and the bias
C24_Witness ==
    /\ pc = "cloned, changed"
    /\ ret.op = "mutate"
    /\ ret.self = 1
    /\ ret.a1 = Unit \div 2
    /\ ret.a2 = Unit
    /\ Layers(1) = <<2, 1>>
    /\ Weights(1)[1][1][1] = Weights(2)[1][1][1] - Unit
    /\ Weights(1)[1][1][2] = Weights(2)[1][1][2]
    /\ Biases(1) = Biases(2)

\* every evaluation has returned what feedForward returns on its input
\* when it runs alone
EachReturnsItsOwnOutput ==
    \A e \in Evaluations :
        frames[e].outputs = feedForward(heap, nets[1], frames[e].inputs).out

C26_TopologyNeverChanges ==
    [][\A v \in DOMAIN nets : Layers(v)' = Layers(v)]_vars

\* C26, witness: a network and the one deserialized from its record hold
\* one layers array, and prune has zeroed a weight of theirs
C26_Witness ==
    /\ pc = "deserialized, changed"
    /\ nets[1].layers = nets[2].layers
    /\ ret.op = "prune"
    /\ ret.value > 0
    /\ Layers(2) = <<2, 1>>

\* every creature and every plant of the simulation
Entities == {sim[1].creatures[n] : n \in DOMAIN sim[1].creatures}
                \cup {sim[1].plants[n] : n \in DOMAIN sim[1].plants}

C30_EntitiesStayInsideTheEnvironment ==
    pc = "simulating"
        => \A e \in Entities :
               /\ 0 <= e.x /\ e.x <= sim[1].environment.width * Unit
               /\ 0 <= e.y /\ e.y <= sim[1].environment.height * Unit

\* C30, witness: the environment has been made small, and a creature and a
\* plant that lay outside it now lie on its edge
C30_Witness ==
    /\ pc = "simulating"
    /\ ret.op = "setEnvironmentSize"
    /\ sim[1].environment.width = 500
    /\ sim[1].creatures[1].x = 500 * Unit
    /\ sim[1].plants[1].y = 500 * Unit

\* C27: runningTest is true whenever a test waits on its timer, also when
\* runPerformanceTests is invoked again before an earlier invocation has
\* resolved.
C27_RunningTestWhileATestWaits ==
    (pc = "testing" /\ harness[1].timers # <<>>) => harness[1].runningTest

\* the start and end events of the tests of one runPerformanceTests call
RECURSIVE LogOf(_, _)
LogOf(log, run) ==
    IF log = <<>> THEN <<>>
    ELSE IF Head(log)[1] = run
         THEN <<Tail(Head(log))>> \o LogOf(Tail(log), run)
         ELSE LogOf(Tail(log), run)

\* the tests of one call, one at a time and in their order
InOrder ==
    <<<<"start", "testBasePerformance">>, <<"end", "testBasePerformance">>,
      <<"start", "testHighPopulationPerformance">>,
      <<"end", "testHighPopulationPerformance">>,
      <<"start", "testNeuralNetworkEfficiency">>,
      <<"end", "testNeuralNetworkEfficiency">>>>

AllResults ==
    {"basePerformance", "highPopulationPerformance", "neuralNetworkPerformance"}

\* the promise of a runPerformanceTests call is neither resolved nor rejected
Pending(run) ==
    /\ pc = "testing"
    /\ run \in DOMAIN harness[1].runs
    /\ harness[1].runs[run] = "pending"

\* C28: a runPerformanceTests call that runs alone starts its three tests
\* one at a time and in the order base, high population, neural network; it
\* resolves only after the three results are in testResults; runningTest
\* is false once it has resolved or rejected; and it settles in the end.
C28_ARunAloneRunsItsTestsInOrderAndSettles ==
    /\ [](pc = "testing" =>
            \A run \in DOMAIN harness[1].runs :
               /\ \E n \in 0..Len(InOrder) :
                      LogOf(harness[1].log, run) = SubSeq(InOrder, 1, n)
               /\ harness[1].runs[run] = "resolved"
                      => /\ LogOf(harness[1].log, run) = InOrder
                         /\ DOMAIN harness[1].testResults = AllResults
               /\ (run = Len(harness[1].runs) /\ harness[1].runs[run] # "pending")
                      => ~harness[1].runningTest)
    /\ \A run \in 1..MaxRuns : Pending(run) ~> ~Pending(run)

\* C28, witness: a call has resolved after its three tests, the second of
\* which computed its result from a sample
C28_Witness ==
    /\ pc = "testing"
    /\ harness[1].runs = <<"resolved">>
    /\ LogOf(harness[1].log, 1) = InOrder
    /\ harness[1].testResults["highPopulationPerformance"] > 0
    /\ ~harness[1].runningTest

====
